---------------------------- MODULE Spec2Model ----------------------------
(***************************************************************************)
(* A model of assembler.py, a table-driven CSV -> binary assembler.        *)
(*                                                                         *)
(* Text is a sequence of one-character strings.  Python's None is the      *)
(* one-element sequence NoneV, whose element is no character, so that a    *)
(* cell is always a sequence and may be compared with any other cell.      *)
(***************************************************************************)
EXTENDS Integers, Sequences, FiniteSets

VARIABLES
    \* ---- the run of main() ----
    csv_header,   \* the header record of the input file, as csv.reader splits it
    csv_data,     \* the data records of the input file, each a sequence of cells
    test,         \* args.test
    pc,           \* position of main(): "load", "loop", "output", "done"; "idle" when main does not run
    rows,         \* load_csv's result
    i,            \* the loop index of main's for loop (1-based)
    ir_list,      \* main's ir_list
    binary,       \* main's binary (valid once pc is "output" or later with exit_code 0)
    stderr,       \* lines printed to sys.stderr
    stdout,       \* what was printed to sys.stdout
    out_file,     \* the file at args.output: [opened, data]
    exit_code,    \* the exit code of the process; Running until it ends
    \* ---- one call of a function on its own ----
    text, parsed,         \* parse_value(text)
    row, lineno, asm,     \* assemble_instruction(row, lineno)
    irs, enc,             \* generate_binary(irs)
    called                \* whether the call has returned

vars == << csv_header, csv_data, test, pc, rows, i, ir_list, binary, stderr,
           stdout, out_file, exit_code, text, parsed, row, lineno, asm, irs,
           enc, called >>

mainVars == << csv_header, csv_data, test, pc, rows, i, ir_list, binary,
               stderr, stdout, out_file, exit_code >>

callVars == << text, parsed, row, lineno, asm, irs, enc, called >>

---------------------------------------------------------------------------
(* Bounds of the model *)

MaxLen == 4        \* longest text given to parse_value on its own
MaxLineNo == 2     \* largest line number given to assemble_instruction on its own
MaxRecords == 3    \* longest IR list given to generate_binary on its own
MaxRows == 2       \* most data records in an input file

---------------------------------------------------------------------------
(* Text *)

Lower == << "a","b","c","d","e","f","g","h","i","j","k","l","m",
            "n","o","p","q","r","s","t","u","v","w","x","y","z" >>
Upper == << "A","B","C","D","E","F","G","H","I","J","K","L","M",
            "N","O","P","Q","R","S","T","U","V","W","X","Y","Z" >>
Decimal == << "0","1","2","3","4","5","6","7","8","9" >>

Range(s) == { s[k] : k \in DOMAIN s }

IndexOf(s, c) == CHOOSE k \in DOMAIN s : s[k] = c

Whitespace == { " ", "\t" }

BOM == "<BOM>"

NoneV == << "<None>" >>

\* isinstance(v, str) for a cell: neither None nor the list DictReader
\* stores under restkey
IsStr(v) == v = << >> \/ Head(v) \notin { "<None>", "<list>" }

RECURSIVE lstrip(_, _)
lstrip(s, chars) ==
    IF s # << >> /\ Head(s) \in chars THEN lstrip(Tail(s), chars) ELSE s

RECURSIVE rstrip(_, _)
rstrip(s, chars) ==
    IF s # << >> /\ s[Len(s)] \in chars
    THEN rstrip(SubSeq(s, 1, Len(s) - 1), chars)
    ELSE s

strip(s) == rstrip(lstrip(s, Whitespace), Whitespace)

startswith(s, p) == Len(s) >= Len(p) /\ SubSeq(s, 1, Len(p)) = p

upperChar(c) == IF c \in Range(Lower) THEN Upper[IndexOf(Lower, c)] ELSE c

\* a variant of upper that leaves the case alone
upper_Identity(s) == s

upper(s) == [ k \in DOMAIN s |-> upperChar(s[k]) ]

---------------------------------------------------------------------------
(* int(s) and int(s, 16) *)

\* the value of a character as a digit; 37 for a character that is none
DigitValue(c) ==
    IF c \in Range(Decimal) THEN IndexOf(Decimal, c) - 1
    ELSE IF c \in Range(Lower) THEN 9 + IndexOf(Lower, c)
    ELSE IF c \in Range(Upper) THEN 9 + IndexOf(Upper, c)
    ELSE 37

\* A Python int: a sign and a magnitude, the magnitude in base 256 with the
\* least significant digit first and no leading zero digit (ints are unbounded)
Big(neg, mag) == [ neg |-> neg /\ mag # << >>, mag |-> mag ]
Zero == Big(FALSE, << >>)

\* mag * base + carry
RECURSIVE MulAdd(_, _, _)
MulAdd(mag, base, carry) ==
    IF mag = << >>
    THEN IF carry = 0 THEN << >>
         ELSE << carry % 256 >> \o MulAdd(<< >>, base, carry \div 256)
    ELSE LET x == Head(mag) * base + carry
         IN  << x % 256 >> \o MulAdd(Tail(mag), base, x \div 256)

PInt(n) == [ tag |-> "int", val |-> n ]
PNone == [ tag |-> "None", val |-> Zero ]
PValueError == [ tag |-> "ValueError", val |-> Zero ]

\* the digits of a literal: digits below the base, single underscores
\* between them only
RECURSIVE DigitsOk(_, _, _)
DigitsOk(s, base, prev) ==
    IF s = << >> THEN prev # "_"
    ELSE IF Head(s) = "_" THEN prev # "_" /\ DigitsOk(Tail(s), base, "_")
    ELSE DigitValue(Head(s)) < base /\ DigitsOk(Tail(s), base, Head(s))

RECURSIVE DigitsValue(_, _, _)
DigitsValue(s, base, acc) ==
    IF s = << >> THEN acc
    ELSE IF Head(s) = "_" THEN DigitsValue(Tail(s), base, acc)
    ELSE DigitsValue(Tail(s), base, MulAdd(acc, base, DigitValue(Head(s))))

\* int(s, base) for base 10 and base 16
PyInt(s, base) ==
    LET t == strip(s)
        neg == t # << >> /\ Head(t) = "-"
        u == IF t # << >> /\ Head(t) \in { "+", "-" } THEN Tail(t) ELSE t
        v == IF base = 16 /\ (startswith(u, << "0", "x" >>) \/ startswith(u, << "0", "X" >>))
             THEN LET w == SubSeq(u, 3, Len(u))
                  IN  IF w # << >> /\ Head(w) = "_" THEN Tail(w) ELSE w
             ELSE u
    IN  IF v = << >> \/ Head(v) = "_" \/ ~DigitsOk(v, base, "")
        THEN PValueError
        ELSE PInt(Big(neg, DigitsValue(v, base, << >>)))

parse_value(s) ==
    IF s = NoneV THEN PNone
    ELSE LET t == strip(s)
         IN  IF t = << >> THEN PNone
             ELSE IF startswith(t, << "0", "x" >>) \/ startswith(t, << "0", "X" >>)
             THEN PyInt(t, 16)
             ELSE PyInt(t, 10)

---------------------------------------------------------------------------
(* The instruction set *)

kMnemonic == << "m", "n", "e", "m", "o", "n", "i", "c" >>
fA == << "A" >>
fB == << "B" >>
fCONST == << "C", "O", "N", "S", "T" >>
fOFFSET == << "O", "F", "F", "S", "E", "T" >>

LOAD_CONST == << "L", "O", "A", "D", "_", "C", "O", "N", "S", "T" >>
READ_MEM == << "R", "E", "A", "D", "_", "M", "E", "M" >>
WRITE_MEM == << "W", "R", "I", "T", "E", "_", "M", "E", "M" >>
POPCT == << "P", "O", "P", "C", "T" >>

Descriptor(mnemonic) ==
    CASE mnemonic = LOAD_CONST -> [ opcode |-> 1, size |-> 5, fields |-> << fA, fB, fCONST >> ]
      [] mnemonic = READ_MEM -> [ opcode |-> 2, size |-> 3, fields |-> << fA, fB, fOFFSET >> ]
      [] mnemonic = WRITE_MEM -> [ opcode |-> 3, size |-> 3, fields |-> << fA, fB, fOFFSET >> ]
      [] mnemonic = POPCT -> [ opcode |-> 4, size |-> 1, fields |-> << fA >> ]

INSTRUCTION_SET ==
    [ mnemonic \in { LOAD_CONST, READ_MEM, WRITE_MEM, POPCT } |-> Descriptor(mnemonic) ]

---------------------------------------------------------------------------
(* assemble_instruction *)

\* row.get(key, default); a row is a function from its column names to cells
Get(r, key, default) == IF key \in DOMAIN r THEN r[key] ELSE default

Exc(type, msg, arg, line) == [ type |-> type, msg |-> msg, arg |-> arg, line |-> line ]
NoExc == Exc("", "", << >>, 0)

NoIR == [ mnemonic |-> << >>, opcode |-> 0, size |-> 0, fields |-> << >>, src_line |-> 0 ]

Return(ir) == [ tag |-> "return", ir |-> ir, exc |-> NoExc ]
Raise(exc) == [ tag |-> "raise", ir |-> NoIR, exc |-> exc ]

\* the exception int() raises on the text parse_value hands it
IntError(raw) ==
    LET t == strip(raw)
    IN  Exc("ValueError",
            IF startswith(t, << "0", "x" >>) \/ startswith(t, << "0", "X" >>)
            THEN "invalid literal for int() with base 16"
            ELSE "invalid literal for int() with base 10",
            t, 0)

RECURSIVE ParseFields(_, _, _)

\* every cell of the row parses, the mnemonic's apart
AllCellsParse(r) ==
    \A c \in DOMAIN r \ { kMnemonic } : parse_value(r[c]).tag # "ValueError"

\* a variant of ParseFields that first parses every operand cell of the row
ParseFields_AllColumns(r, fields, parsed_fields) ==
    IF ~AllCellsParse(r)
    THEN [ tag |-> "raise", fields |-> << >>,
           exc |-> IntError(r[CHOOSE c \in DOMAIN r \ { kMnemonic } :
                                parse_value(r[c]).tag = "ValueError"]) ]
    ELSE IF fields = << >> THEN [ tag |-> "return", fields |-> parsed_fields, exc |-> NoExc ]
    ELSE LET f == Head(fields)
         IN  ParseFields(r, Tail(fields),
                         Append(parsed_fields, [ name |-> f, value |-> parse_value(Get(r, f, << >>)) ]))

\* the loop over the fields: the fields parsed so far, or the first error
ParseFields(r, fields, parsed_fields) ==
    IF fields = << >> THEN [ tag |-> "return", fields |-> parsed_fields, exc |-> NoExc ]
    ELSE LET f == Head(fields)
             raw == Get(r, f, << >>)
             val == parse_value(raw)
         IN  IF val.tag = "ValueError"
             THEN [ tag |-> "raise", fields |-> << >>, exc |-> IntError(raw) ]
             ELSE ParseFields(r, Tail(fields),
                              Append(parsed_fields, [ name |-> f, value |-> val ]))

assemble_instruction(r, n) ==
    LET m == Get(r, kMnemonic, << >>)
    IN  IF ~IsStr(m)
        THEN Raise(Exc("AttributeError", "'NoneType' object has no attribute 'upper'", << >>, 0))
        ELSE LET mnemonic == upper(m)
             IN  IF mnemonic = << >>
                 THEN Raise(Exc("ValueError", "Empty mnemonic at line", << >>, n))
                 ELSE IF mnemonic \notin DOMAIN INSTRUCTION_SET
                 THEN Raise(Exc("ValueError", "Unknown mnemonic at line", mnemonic, n))
                 ELSE LET d == INSTRUCTION_SET[mnemonic]
                          p == ParseFields(r, d.fields, << >>)
                      IN  IF p.tag = "raise" THEN Raise(p.exc)
                          ELSE Return([ mnemonic |-> mnemonic,
                                        opcode |-> d.opcode,
                                        size |-> d.size,
                                        fields |-> p.fields,
                                        src_line |-> n ])

---------------------------------------------------------------------------
(* generate_binary *)

Bytes(b) == [ tag |-> "return", bytes |-> b, exc |-> NoExc ]
BytesError(exc) == [ tag |-> "raise", bytes |-> << >>, exc |-> exc ]

RECURSIVE Zeros(_)
Zeros(n) == IF n <= 0 THEN << >> ELSE << 0 >> \o Zeros(n - 1)

RECURSIVE Reverse(_)
Reverse(s) == IF s = << >> THEN << >> ELSE Reverse(Tail(s)) \o << Head(s) >>

\* a variant of to_bytes with the most significant byte first
to_bytes_Big(v, length) ==
    IF v.neg
    THEN BytesError(Exc("OverflowError", "can't convert negative int to unsigned", << >>, 0))
    ELSE IF Len(v.mag) > length
    THEN BytesError(Exc("OverflowError", "int too big to convert", << >>, 0))
    ELSE Bytes(Reverse(v.mag \o Zeros(length - Len(v.mag))))

\* int.to_bytes(length, "little"), unsigned
to_bytes(v, length) ==
    IF v.neg
    THEN BytesError(Exc("OverflowError", "can't convert negative int to unsigned", << >>, 0))
    ELSE IF Len(v.mag) > length
    THEN BytesError(Exc("OverflowError", "int too big to convert", << >>, 0))
    ELSE Bytes(v.mag \o Zeros(length - Len(v.mag)))

\* the bytes of one field
FieldBytes(value) ==
    IF value.tag = "None" THEN to_bytes(Zero, 4) ELSE to_bytes(value.val, 4)

\* the inner loop: out extended by the fields from k on, or the first error
RECURSIVE ExtendFields(_, _, _)
ExtendFields(out, fields, k) ==
    IF k > Len(fields) THEN Bytes(out)
    ELSE LET b == FieldBytes(fields[k].value)
         IN  IF b.tag = "raise" THEN b
             ELSE ExtendFields(out \o b.bytes, fields, k + 1)

OpcodeByte(instr) == instr.opcode % 256

\* the outer loop: out extended by the instructions from k on, or the first error
RECURSIVE ExtendInstrs(_, _, _)
ExtendInstrs(out, ir, k) ==
    IF k > Len(ir) THEN Bytes(out)
    ELSE LET o == ExtendFields(Append(out, OpcodeByte(ir[k])), ir[k].fields, 1)
         IN  IF o.tag = "raise" THEN o
             ELSE ExtendInstrs(o.bytes, ir, k + 1)

generate_binary(ir) == ExtendInstrs(<< >>, ir, 1)

---------------------------------------------------------------------------
(* load_csv *)

RECURSIVE LoadRows(_, _, _), LoadRows_Prepend(_, _, _)

\* A dict under construction: a sequence of [k, v] with distinct keys, in
\* insertion order.  d[k] = v:
RECURSIVE DictSet(_, _, _)
DictSet(d, k, v) ==
    IF d = << >> THEN << [ k |-> k, v |-> v ] >>
    ELSE IF Head(d).k = k THEN << [ k |-> k, v |-> v ] >> \o Tail(d)
    ELSE << Head(d) >> \o DictSet(Tail(d), k, v)

\* the dict as a row: a function from its keys
DictKeys(d) == { d[j].k : j \in DOMAIN d }
ToRow(d) == [ key \in DictKeys(d) |-> (CHOOSE j \in DOMAIN d : d[j].k = key) ]
DictRow(d) == LET at == ToRow(d) IN [ key \in DictKeys(d) |-> d[at[key]].v ]

\* the list DictReader stores under restkey, kept as one cell
RECURSIVE Joined(_)
Joined(cells) ==
    IF cells = << >> THEN << >>
    ELSE << "<item>" >> \o Head(cells) \o Joined(Tail(cells))
ListV(cells) == << "<list>" >> \o Joined(cells)

\* name.lstrip(BOM).strip()
CleanName(name) == strip(lstrip(name, { BOM }))

\* dict(zip(fieldnames, record)), from position k on
RECURSIVE Zip(_, _, _, _)
Zip(d, fieldnames, record, k) ==
    IF k > Len(fieldnames) \/ k > Len(record) THEN d
    ELSE Zip(DictSet(d, fieldnames[k], record[k]), fieldnames, record, k + 1)

\* d[key] = restval for the fieldnames from position k on
RECURSIVE Fill(_, _, _)
Fill(d, fieldnames, k) ==
    IF k > Len(fieldnames) THEN d
    ELSE Fill(DictSet(d, fieldnames[k], NoneV), fieldnames, k + 1)

\* csv.DictReader.__next__ on one non-empty record
DictReaderRow(fieldnames, record) ==
    LET d == Zip(<< >>, fieldnames, record, 1)
        lf == Len(fieldnames)
        lr == Len(record)
    IN  IF lf < lr THEN DictSet(d, NoneV, ListV(SubSeq(record, lf + 1, lr)))
        ELSE IF lf > lr THEN Fill(d, fieldnames, lr + 1)
        ELSE d

\* the dict comprehension of load_csv, from position k of the reader's dict on
RECURSIVE CleanRow(_, _, _)
CleanRow(clean, d, k) ==
    IF k > Len(d) THEN clean
    ELSE LET key == IF d[k].k = NoneV \/ d[k].k = << >> THEN d[k].k ELSE CleanName(d[k].k)
             val == IF IsStr(d[k].v) THEN strip(d[k].v) ELSE d[k].v
         IN  CleanRow(DictSet(clean, key, val), d, k + 1)

\* the clean_row of one record of the reader
clean_row(fieldnames, record) ==
    DictRow(CleanRow(<< >>, DictReaderRow(fieldnames, record), 1))

\* a variant of LoadRows that puts each row before the earlier ones
LoadRows_Prepend(out, fieldnames, data) ==
    IF data = << >> THEN out
    ELSE IF Head(data) = << >> THEN LoadRows_Prepend(out, fieldnames, Tail(data))
    ELSE LoadRows_Prepend(<< clean_row(fieldnames, Head(data)) >> \o out,
                          fieldnames, Tail(data))

\* the loop over the reader: DictReader skips the empty records
LoadRows(out, fieldnames, data) ==
    IF data = << >> THEN out
    ELSE IF Head(data) = << >> THEN LoadRows(out, fieldnames, Tail(data))
    ELSE LoadRows(Append(out, clean_row(fieldnames, Head(data))),
                  fieldnames, Tail(data))

load_csv(header, data) ==
    LoadRows(<< >>, [ k \in DOMAIN header |-> CleanName(header[k]) ], data)

---------------------------------------------------------------------------
(* main *)

Running == -1

\* a variant of ErrorLine that counts the rows from 0
ErrorLine_ZeroBased(n, exc) == [ kind |-> "[ERROR] line", line |-> n - 1, exc |-> exc ]

ErrorLine(n, exc) == [ kind |-> "[ERROR] line", line |-> n, exc |-> exc ]
Traceback(exc) == [ kind |-> "Traceback", line |-> 0, exc |-> exc ]

\* rows = load_csv(args.input); ir_list = []
Load ==
    /\ pc = "load"
    /\ rows' = load_csv(csv_header, csv_data)
    /\ ir_list' = << >>
    /\ i' = 1
    /\ pc' = "loop"
    /\ UNCHANGED << csv_header, csv_data, test, binary, stderr, stdout, out_file,
                    exit_code, callVars >>

\* a variant of OnRowError that reports the row and goes on with the next
OnRowError_Skip(n, exc) ==
    /\ stderr' = Append(stderr, ErrorLine(n, exc))
    /\ i' = i + 1
    /\ UNCHANGED << ir_list, pc, exit_code >>

\* what the except clause does with the exception of row n
OnRowError(n, exc) ==
    /\ stderr' = Append(stderr, ErrorLine(n, exc))
    /\ exit_code' = 1
    /\ pc' = "done"
    /\ UNCHANGED << ir_list, i >>

\* one iteration of the for loop
Iterate ==
    /\ pc = "loop"
    /\ i <= Len(rows)
    /\ LET r == assemble_instruction(rows[i], i)
       IN  IF r.tag = "return"
           THEN /\ ir_list' = Append(ir_list, r.ir)
                /\ i' = i + 1
                /\ UNCHANGED << pc, stderr, exit_code >>
           ELSE OnRowError(i, r.exc)
    /\ UNCHANGED << csv_header, csv_data, test, rows, binary, stdout, out_file, callVars >>

\* binary = generate_binary(ir_list); an exception here is not caught
Encode ==
    /\ pc = "loop"
    /\ i > Len(rows)
    /\ LET b == generate_binary(ir_list)
       IN  IF b.tag = "return"
           THEN /\ binary' = b.bytes
                /\ pc' = "output"
                /\ UNCHANGED << stderr, exit_code >>
           ELSE /\ stderr' = Append(stderr, Traceback(b.exc))
                /\ exit_code' = 1
                /\ pc' = "done"
                /\ UNCHANGED binary
    /\ UNCHANGED << csv_header, csv_data, test, rows, i, ir_list, stdout, out_file, callVars >>

\* a variant of PrintDump without the return: the file is written as well
PrintDump_FallThrough ==
    /\ pc = "output"
    /\ test
    /\ stdout' = << [ kind |-> "Binary dump", bytes |-> binary, total |-> Len(binary) ],
                    [ kind |-> "OK", bytes |-> << >>, total |-> Len(binary) ] >>
    /\ out_file' = [ opened |-> TRUE, data |-> binary ]
    /\ exit_code' = 0
    /\ pc' = "done"
    /\ UNCHANGED << csv_header, csv_data, test, rows, i, ir_list, binary, stderr, callVars >>

\* print_binary_readable(binary); return
PrintDump ==
    /\ pc = "output"
    /\ test
    /\ stdout' = Append(stdout, [ kind |-> "Binary dump", bytes |-> binary, total |-> Len(binary) ])
    /\ exit_code' = 0
    /\ pc' = "done"
    /\ UNCHANGED << csv_header, csv_data, test, rows, i, ir_list, binary, stderr,
                    out_file, callVars >>

\* with open(args.output, "wb") as f: f.write(binary); print("OK: ...")
WriteFile ==
    /\ pc = "output"
    /\ ~test
    /\ out_file' = [ opened |-> TRUE, data |-> binary ]
    /\ stdout' = Append(stdout, [ kind |-> "OK", bytes |-> << >>, total |-> Len(binary) ])
    /\ exit_code' = 0
    /\ pc' = "done"
    /\ UNCHANGED << csv_header, csv_data, test, rows, i, ir_list, binary, stderr, callVars >>

---------------------------------------------------------------------------
(* The run of main over an input file *)

CallIdle ==
    /\ text = << >>
    /\ parsed = PNone
    /\ row = << >>
    /\ lineno = 0
    /\ asm = Raise(NoExc)
    /\ irs = << >>
    /\ enc = Bytes(<< >>)
    /\ called = FALSE

\* header records: plain; with a byte-order mark and padded names; with the
\* mnemonic column second; without a mnemonic column
Headers ==
    { << kMnemonic, fA, fB, fCONST >>,
      << << BOM >> \o kMnemonic, << " " >> \o fA, fB \o << " " >>, fCONST >>,
      << fA, kMnemonic >>,
      << fA, fB >> }

\* data records, as csv.reader splits the lines of the file; << >> is a
\* blank line
Records ==
    { << LOAD_CONST, << "1" >>, << "2" >>, << "1", "6" >> >>,
      << POPCT, << "3" >> >>,
      << << "p", "o", "p", "c", "t" >>, << " ", "0", "x", "1", "A", " " >> >>,
      << << "F", "O", "O" >> >>,
      << POPCT, << "-", "1" >> >>,
      << POPCT, << "0", "x", "1", "0", "0", "0", "0", "0", "0", "0", "0" >> >>,
      << POPCT, << "0", "x", "Z", "Z" >> >>,
      << << >>, << "5" >> >>,
      << << "3" >> >>,
      << << "3" >>, POPCT >>,
      << >>,
      << POPCT, << "1" >>, << "2" >>, << "3" >>, << "4" >> >> }

SeqsUpTo(S, n) == UNION { [ 1..k -> S ] : k \in 0..n }

Init ==
    /\ csv_header \in Headers
    /\ csv_data \in SeqsUpTo(Records, MaxRows)
    /\ test \in BOOLEAN
    /\ pc = "load"
    /\ rows = << >>
    /\ i = 0
    /\ ir_list = << >>
    /\ binary = << >>
    /\ stderr = << >>
    /\ stdout = << >>
    /\ out_file = [ opened |-> FALSE, data |-> << >> ]
    /\ exit_code = Running
    /\ CallIdle

Next == Load \/ Iterate \/ Encode \/ PrintDump \/ WriteFile

Spec == Init /\ [][Next]_vars

---------------------------------------------------------------------------
(* parse_value on its own *)

MainIdle ==
    /\ csv_header = << >>
    /\ csv_data = << >>
    /\ test = FALSE
    /\ pc = "idle"
    /\ rows = << >>
    /\ i = 0
    /\ ir_list = << >>
    /\ binary = << >>
    /\ stderr = << >>
    /\ stdout = << >>
    /\ out_file = [ opened |-> FALSE, data |-> << >> ]
    /\ exit_code = Running

ParseChars == { "0", "1", "A", "x", "X", "-", "+", "_", " " }

InitParse ==
    /\ MainIdle
    /\ text \in SeqsUpTo(ParseChars, MaxLen) \cup { NoneV }
    /\ parsed = PNone
    /\ row = << >>
    /\ lineno = 0
    /\ asm = Raise(NoExc)
    /\ irs = << >>
    /\ enc = Bytes(<< >>)
    /\ called = FALSE

CallParse ==
    /\ ~called
    /\ parsed' = parse_value(text)
    /\ called' = TRUE
    /\ UNCHANGED << mainVars, text, row, lineno, asm, irs, enc >>

NextParse == CallParse

SpecParse == InitParse /\ [][NextParse]_vars

---------------------------------------------------------------------------
(* assemble_instruction on its own, on the rows load_csv can produce: the
   cells are trimmed, a cell of a short record is None, a column the header
   lacks is missing *)

Missing == << "<missing>" >>

ZCol == << "Z" >>
OperandColumns == { fA, fB, fCONST, fOFFSET, ZCol }

MnemonicCells ==
    { Missing, NoneV, << >>, POPCT, LOAD_CONST,
      << "L", "o", "a", "d", "_", "C", "o", "n", "s", "t" >>,
      << "r", "e", "a", "d", "_", "m", "e", "m" >>,
      WRITE_MEM, << "F", "O", "O" >> }

OperandCells == { Missing, NoneV, << >>, << "0", "x", "1", "A" >>, << "1", "x" >> }

RowOf(cells) ==
    [ key \in { c \in DOMAIN cells : cells[c] # Missing } |-> cells[key] ]

AsmRows ==
    { RowOf([ c \in OperandColumns \cup { kMnemonic } |->
                IF c = kMnemonic THEN m ELSE ops[c] ]) :
        m \in MnemonicCells, ops \in [ OperandColumns -> OperandCells ] }

InitAssemble ==
    /\ MainIdle
    /\ text = << >>
    /\ parsed = PNone
    /\ row \in AsmRows
    /\ lineno \in 1..MaxLineNo
    /\ asm = Raise(NoExc)
    /\ irs = << >>
    /\ enc = Bytes(<< >>)
    /\ called = FALSE

CallAssemble ==
    /\ ~called
    /\ asm' = assemble_instruction(row, lineno)
    /\ called' = TRUE
    /\ UNCHANGED << mainVars, text, parsed, row, lineno, irs, enc >>

NextAssemble == CallAssemble

SpecAssemble == InitAssemble /\ [][NextAssemble]_vars

---------------------------------------------------------------------------
(* generate_binary on its own, on records assemble_instruction can return *)

IR(mnemonic, values) ==
    LET d == INSTRUCTION_SET[mnemonic]
    IN  [ mnemonic |-> mnemonic, opcode |-> d.opcode, size |-> d.size,
          fields |-> [ k \in DOMAIN d.fields |-> [ name |-> d.fields[k], value |-> values[k] ] ],
          src_line |-> 1 ]

Nat8(n) == PInt(Big(FALSE, << n >>))

EncRecords ==
    { IR(LOAD_CONST, << Nat8(1), Nat8(2), Nat8(16) >>),
      IR(POPCT, << PNone >>),
      IR(POPCT, << PInt(Big(FALSE, << 4, 3, 2, 1 >>)) >>),
      IR(READ_MEM, << Nat8(255), PInt(Big(FALSE, << 0, 1 >>)), PNone >>),
      IR(WRITE_MEM, << PNone, PNone, PInt(Zero) >>),
      IR(POPCT, << PInt(Big(FALSE, << 255, 255, 255, 255 >>)) >>),
      IR(POPCT, << PInt(Big(TRUE, << 1 >>)) >>),
      IR(POPCT, << PInt(Big(FALSE, << 0, 0, 0, 0, 1 >>)) >>) }

InitEncode ==
    /\ MainIdle
    /\ text = << >>
    /\ parsed = PNone
    /\ row = << >>
    /\ lineno = 0
    /\ asm = Raise(NoExc)
    /\ irs \in SeqsUpTo(EncRecords, MaxRecords)
    /\ enc = Bytes(<< >>)
    /\ called = FALSE

CallEncode ==
    /\ ~called
    /\ enc' = generate_binary(irs)
    /\ called' = TRUE
    /\ UNCHANGED << mainVars, text, parsed, row, lineno, asm, irs >>

NextEncode == CallEncode

SpecEncode == InitEncode /\ [][NextEncode]_vars

---------------------------------------------------------------------------
(* Properties of the run of main (specification Spec) *)

Loaded == pc # "load"

\* the outcome of assembling row k of the loaded rows
Outcome(k) == assemble_instruction(rows[k], k)

Failing == { k \in 1..Len(rows) : Outcome(k).tag = "raise" }

FirstFailing == CHOOSE k \in Failing : \A j \in Failing : k <= j

AllRecords == [ k \in 1..Len(rows) |-> Outcome(k).ir ]

\* C1: whole batch or nothing.  The output file is never written unless
\* every row assembled, and then it holds the encoding of all the rows; a
\* finished run either assembled every row and produced the complete binary,
\* or wrote nothing and exited with a failure code.
C1_WholeBatchOrNothing ==
    Loaded =>
      /\ out_file.opened =>
           /\ Failing = { }
           /\ generate_binary(AllRecords).tag = "return"
           /\ out_file.data = generate_binary(AllRecords).bytes
      /\ pc = "done" =>
           \/ /\ Failing = { }
              /\ exit_code = 0
              /\ generate_binary(AllRecords).tag = "return"
              /\ binary = generate_binary(AllRecords).bytes
           \/ /\ ~out_file.opened
              /\ exit_code = 1

\* a run that assembled a row, then failed on a later one, and wrote nothing
C1_Witness ==
    /\ pc = "done"
    /\ ~test
    /\ Len(ir_list) >= 1
    /\ Failing # { }
    /\ exit_code = 1
    /\ ~out_file.opened

\* C2: fail fast.  When some row fails to assemble, the loop never passes
\* the first failing row, no later row is assembled, and the finished run
\* has printed exactly one line, "[ERROR] line n: message" with n the
\* position of the first failing row and the message its exception's, and
\* has exit code 1.
C2_FailFast ==
    (Loaded /\ Failing # { }) =>
      /\ i <= FirstFailing
      /\ Len(ir_list) < FirstFailing
      /\ pc \in { "loop", "done" }
      /\ pc = "done" =>
           /\ i = FirstFailing
           /\ Len(ir_list) = FirstFailing - 1
           /\ stderr = << [ kind |-> "[ERROR] line", line |-> FirstFailing,
                            exc |-> Outcome(FirstFailing).exc ] >>
           /\ exit_code = 1
      /\ pc # "done" => stderr = << >> /\ exit_code = Running

\* a finished run that failed on its first row and left a second row, which
\* assembles, unassembled
C2_Witness ==
    /\ pc = "done"
    /\ Len(rows) = 2
    /\ Failing = { 1 }
    /\ ir_list = << >>
    /\ Len(stderr) = 1

\* the input's records that are not blank lines
NonBlank(data) == SelectSeq(data, LAMBDA r : r # << >>)

\* C5: row order is preserved.  The loaded rows are the input's records in
\* their order; at every point the IR list is the records of rows 1..k in
\* row order, the k-th carrying source line k; after a successful run it has
\* one record per row.
C5_RowOrder ==
    Loaded =>
      /\ Len(rows) = Len(NonBlank(csv_data))
      /\ \A k \in 1..Len(rows) :
           rows[k] = clean_row([ j \in DOMAIN csv_header |-> CleanName(csv_header[j]) ],
                               NonBlank(csv_data)[k])
      /\ Len(ir_list) <= Len(rows)
      /\ \A k \in 1..Len(ir_list) :
           /\ Outcome(k).tag = "return"
           /\ ir_list[k] = Outcome(k).ir
           /\ ir_list[k].src_line = k
      /\ (pc = "output" \/ exit_code = 0) => Len(ir_list) = Len(rows)

\* a successful run over two different rows
C5_Witness ==
    /\ pc = "done"
    /\ exit_code = 0
    /\ Len(ir_list) = 2
    /\ ir_list[1].mnemonic # ir_list[2].mnemonic

Dumps == { k \in 1..Len(stdout) : stdout[k].kind = "Binary dump" }

\* C9: one output action per successful run, chosen by the dry-run flag.
\* Nothing is printed and the output file is not opened before every row is
\* assembled and the bytes are encoded; a successful dry run has printed the
\* dump of the encoded bytes and not opened the file; a successful run
\* without the flag has written the encoded bytes verbatim and printed no
\* dump; no run does both.
C9_OneOutputAction ==
    /\ pc \in { "load", "loop", "output" } => stdout = << >> /\ ~out_file.opened
    /\ ~(Dumps # { } /\ out_file.opened)
    /\ (pc = "done" /\ exit_code = 0) =>
         /\ Len(ir_list) = Len(rows)
         /\ generate_binary(ir_list).tag = "return"
         /\ IF test
            THEN /\ stdout = << [ kind |-> "Binary dump",
                                  bytes |-> generate_binary(ir_list).bytes,
                                  total |-> Len(generate_binary(ir_list).bytes) ] >>
                 /\ ~out_file.opened
            ELSE /\ out_file = [ opened |-> TRUE, data |-> generate_binary(ir_list).bytes ]
                 /\ Dumps = { }
                 /\ Len(stdout) = 1
    /\ (pc = "done" /\ exit_code # 0) => stdout = << >> /\ ~out_file.opened

\* a successful dry run that printed a dump of some bytes
C9_Witness ==
    /\ pc = "done"
    /\ exit_code = 0
    /\ test
    /\ Dumps # { }
    /\ Len(binary) > 0

\* C3: the encoder raises no error on assembled input: a run in which every
\* row assembled does not end in the encoder's exception.
C3_EncoderNeverRaises ==
    (pc = "done" /\ Loaded /\ Failing = { }) =>
      /\ \A k \in 1..Len(stderr) : stderr[k].kind # "Traceback"
      /\ exit_code = 0

\* the mnemonic field of a row is absent or empty
EmptyMnemonicRow(r) ==
    \/ kMnemonic \notin DOMAIN r
    \/ r[kMnemonic] = NoneV
    \/ upper(strip(r[kMnemonic])) = << >>

\* C7: a row whose mnemonic field is absent (the column is missing or the
\* cell has no value) or empty fails with the empty-mnemonic error naming
\* its line, and with no other error.
C7_EmptyMnemonicError ==
    (pc = "done" /\ Failing # { } /\ EmptyMnemonicRow(rows[FirstFailing])) =>
      /\ Len(stderr) = 1
      /\ stderr[1].exc = Exc("ValueError", "Empty mnemonic at line", << >>, FirstFailing)

---------------------------------------------------------------------------
(* Properties of parse_value (specification SpecParse) *)

HexDigits == Range(Decimal) \cup { "a", "b", "c", "d", "e", "f", "A", "B", "C", "D", "E", "F" }

RECURSIVE Power(_, _)
Power(b, n) == IF n = 0 THEN 1 ELSE b * Power(b, n - 1)

\* the number a text of digits denotes in a base
NumberOf(digits, base) ==
    LET n == Len(digits)
        term[k \in 0..n] ==
            IF k = 0 THEN 0
            ELSE term[k - 1] + DigitValue(digits[k]) * Power(base, n - k)
    IN  term[n]

\* the integer a parsed value stands for (small values only)
IntOf(v) ==
    LET n == Len(v.mag)
        term[k \in 0..n] ==
            IF k = 0 THEN 0 ELSE term[k - 1] + v.mag[k] * Power(256, k - 1)
    IN  IF v.neg THEN 0 - term[n] ELSE term[n]

\* C8: the operand parser accepts exactly the specified literals: absent
\* or blank text gives no-value; after 0x or 0X, any character that is no hex
\* digit is an error and hex digits give their base-16 value; any other text
\* is an error if it holds a character that is no digit, one leading sign
\* apart, and else gives its base-10 value.
C8_ParserAcceptsExactly ==
    called =>
      IF text = NoneV \/ strip(text) = << >> THEN parsed = PNone
      ELSE LET t == strip(text)
               hex == startswith(t, << "0", "x" >>) \/ startswith(t, << "0", "X" >>)
               rest == SubSeq(t, 3, Len(t))
               signed == Head(t) \in { "+", "-" }
               digits == IF signed THEN Tail(t) ELSE t
           IN  IF hex
               THEN IF \E k \in DOMAIN rest : rest[k] \notin HexDigits
                    THEN parsed.tag = "ValueError"
                    ELSE rest # << >> =>
                           parsed.tag = "int" /\ IntOf(parsed.val) = NumberOf(rest, 16)
               ELSE IF \E k \in DOMAIN digits : digits[k] \notin Range(Decimal)
                    THEN parsed.tag = "ValueError"
                    ELSE digits # << >> =>
                           /\ parsed.tag = "int"
                           /\ IntOf(parsed.val) =
                                (IF Head(t) = "-" THEN 0 - NumberOf(digits, 10)
                                 ELSE NumberOf(digits, 10))

---------------------------------------------------------------------------
(* Properties of assemble_instruction (specification SpecAssemble) *)

\* the catalog of the specification
Catalog ==
    { [ mnemonic |-> LOAD_CONST, opcode |-> 1, size |-> 5, fields |-> << fA, fB, fCONST >> ],
      [ mnemonic |-> READ_MEM, opcode |-> 2, size |-> 3, fields |-> << fA, fB, fOFFSET >> ],
      [ mnemonic |-> WRITE_MEM, opcode |-> 3, size |-> 3, fields |-> << fA, fB, fOFFSET >> ],
      [ mnemonic |-> POPCT, opcode |-> 4, size |-> 1, fields |-> << fA >> ] }

\* the mnemonic cell of the row names this catalog entry, whatever its case
Names(r, d) ==
    /\ kMnemonic \in DOMAIN r
    /\ r[kMnemonic] # NoneV
    /\ \A k \in 1..Len(d.mnemonic) :
         /\ Len(r[kMnemonic]) = Len(d.mnemonic)
         /\ \/ r[kMnemonic][k] = d.mnemonic[k]
            \/ /\ d.mnemonic[k] \in Range(Upper)
               /\ r[kMnemonic][k] = Lower[IndexOf(Upper, d.mnemonic[k])]

Absent(r, f) == f \notin DOMAIN r \/ r[f] = NoneV \/ strip(r[f]) = << >>

\* a valid integer literal: 0x or 0X and hex digits, or digits after an
\* optional sign
Literal(cell) ==
    LET t == strip(cell)
        digits == IF t # << >> /\ Head(t) \in { "+", "-" } THEN Tail(t) ELSE t
    IN  IF startswith(t, << "0", "x" >>) \/ startswith(t, << "0", "X" >>)
        THEN Len(t) > 2 /\ \A k \in 3..Len(t) : t[k] \in HexDigits
        ELSE digits # << >> /\ \A k \in DOMAIN digits : digits[k] \in Range(Decimal)

WellFormed(r, d) ==
    /\ Names(r, d)
    /\ \A k \in DOMAIN d.fields : Absent(r, d.fields[k]) \/ Literal(r[d.fields[k]])

\* C6: assemble succeeds on every well-formed row, and the record carries
\* the descriptor's opcode and declared size, the line number, and the
\* descriptor's field names in the declared order, with no-value for every
\* absent or blank field and an integer for every other.
C6_AssembleSucceeds ==
    called =>
      \A d \in Catalog :
        WellFormed(row, d) =>
          /\ asm.tag = "return"
          /\ asm.ir.opcode = d.opcode
          /\ asm.ir.size = d.size
          /\ asm.ir.src_line = lineno
          /\ Len(asm.ir.fields) = Len(d.fields)
          /\ \A k \in DOMAIN d.fields :
               /\ asm.ir.fields[k].name = d.fields[k]
               /\ IF Absent(row, d.fields[k])
                  THEN asm.ir.fields[k].value = PNone
                  ELSE asm.ir.fields[k].value.tag = "int"

\* a lower-case LOAD_CONST row with a missing column, a blank cell and a
\* literal has been assembled
C6_Witness ==
    /\ called
    /\ asm.tag = "return"
    /\ asm.ir.opcode = 1
    /\ row[kMnemonic] # LOAD_CONST
    /\ fA \notin DOMAIN row
    /\ fB \in DOMAIN row /\ row[fB] = << >>
    /\ fCONST \in DOMAIN row /\ row[fCONST] = << "0", "x", "1", "A" >>

\* the row without the columns the instruction does not declare
Declared(r) ==
    [ key \in DOMAIN r \cap
        ({ kMnemonic } \cup Range(INSTRUCTION_SET[upper(r[kMnemonic])].fields)) |-> r[key] ]

Matched(r) ==
    /\ kMnemonic \in DOMAIN r
    /\ r[kMnemonic] # NoneV
    /\ upper(r[kMnemonic]) \in DOMAIN INSTRUCTION_SET

\* C10: the columns the matched instruction does not declare never
\* influence assembly: the outcome for a row is the outcome for the row
\* without those columns, so any two rows that agree on the mnemonic and on
\* the declared columns have the same outcome for the same line number.
C10_UndeclaredColumnsIgnored ==
    (called /\ Matched(row)) => asm = assemble_instruction(Declared(row), lineno)

\* a POPCT row with unparsable B and Z cells has been assembled
C10_Witness ==
    /\ called
    /\ asm.tag = "return"
    /\ asm.ir.mnemonic = POPCT
    /\ fB \in DOMAIN row /\ row[fB] = << "1", "x" >>
    /\ ZCol \in DOMAIN row /\ row[ZCol] = << "1", "x" >>
    /\ Declared(row) # row

---------------------------------------------------------------------------
(* Properties of generate_binary (specification SpecEncode) *)

\* where the encoding of record k starts, counting from 0
RECURSIVE Offset(_, _)
Offset(ir, k) ==
    IF k <= 1 THEN 0 ELSE Offset(ir, k - 1) + 1 + 4 * Len(ir[k - 1].fields)

\* byte b (0 the least significant) of a field's value, 0 for no-value
ByteOf(value, b) ==
    IF value.tag = "None" \/ b + 1 > Len(value.val.mag) THEN 0 ELSE value.val.mag[b + 1]

\* C4: byte layout.  The output is the concatenation, in input order, of
\* each record's encoding: one byte opcode & 0xFF, then for each field in
\* field order 4 bytes holding the value little-endian, zero bytes for
\* no-value.
C4_ByteLayout ==
    (called /\ enc.tag = "return") =>
      /\ Len(enc.bytes) = Offset(irs, Len(irs) + 1)
      /\ \A k \in DOMAIN irs :
           /\ enc.bytes[Offset(irs, k) + 1] = irs[k].opcode % 256
           /\ \A f \in DOMAIN irs[k].fields :
                /\ irs[k].fields[f].value.tag = "int" =>
                     /\ ~irs[k].fields[f].value.val.neg
                     /\ Len(irs[k].fields[f].value.val.mag) <= 4
                /\ \A b \in 0..3 :
                     enc.bytes[Offset(irs, k) + 1 + 4 * (f - 1) + b + 1] =
                       ByteOf(irs[k].fields[f].value, b)
      /\ irs = << IR(LOAD_CONST, << Nat8(1), Nat8(2), Nat8(16) >>) >> =>
           enc.bytes = << 1, 1, 0, 0, 0, 2, 0, 0, 0, 16, 0, 0, 0 >>

\* two records, the second with a value of four different bytes, encoded
C4_Witness ==
    /\ called
    /\ enc.tag = "return"
    /\ Len(irs) = 2
    /\ irs[1] = IR(LOAD_CONST, << Nat8(1), Nat8(2), Nat8(16) >>)
    /\ irs[2] = IR(POPCT, << PInt(Big(FALSE, << 4, 3, 2, 1 >>)) >>)

===========================================================================
